---- MODULE Spec2Model ----
(***************************************************************************)
(* Model of src/minesweeper.py: the Sentence constraint and the            *)
(* MinesweeperAI knowledge base (add_knowledge, check, mark_mine,          *)
(* mark_safe, make_safe_move, make_random_move), played against a          *)
(* Minesweeper board.                                                      *)
(*                                                                         *)
(* A cell (i, j) is the tuple <<i, j>>.  A Sentence is the record          *)
(* [cells |-> set of cells, count |-> integer].  MinesweeperAI.knowledge   *)
(* is a Python list of Sentence objects; the code only ever iterates over  *)
(* it with effects that commute (set insertions, per-sentence removals),   *)
(* and the order in which the inferred sentences are appended is the       *)
(* iteration order of a Python set, so the list is modelled up to order    *)
(* as a bag: sentence value |-> number of Sentence objects of that value.  *)
(***************************************************************************)
EXTENDS Integers, FiniteSets, Sequences, Bags, TLC

\* ---- bounds of the model ----
\* the largest board: height * width <= MaxCells
MaxCells == 6
\* the number of add_knowledge calls of a game
MaxCalls == 3
\* the number of calls of add_knowledge, mark_mine and mark_safe when the
\* methods are called with arbitrary arguments
MaxAnyCalls == 2
\* the largest count passed to add_knowledge when it is not a true count
MaxCount == 2

VARIABLES height, width, board, moves_made, mines, safes, knowledge,
          op, arg, my_sentence, new_sentences, ret, calls,
          sentence, sentence_was

vars == <<height, width, board, moves_made, mines, safes, knowledge,
          op, arg, my_sentence, new_sentences, ret, calls,
          sentence, sentence_was>>

\* a Sentence object used on its own, and its value before the last call
\* of one of its methods
sentenceVars == <<sentence, sentence_was>>

\* the fields of MinesweeperAI
aiState == <<moves_made, mines, safes, knowledge>>

None == <<>>

\* ---- the board (class Minesweeper) ----

\* all cells of an h x w board
Cells(h, w) == (0 .. h - 1) \X (0 .. w - 1)

\* the cells within one row and column of cell, in bounds, not the cell itself
Neighbours(cell, h, w) ==
    {c \in ((cell[1] - 1) .. (cell[1] + 1)) \X ((cell[2] - 1) .. (cell[2] + 1)) :
        /\ 0 <= c[1] /\ c[1] <= h - 1 /\ 0 <= c[2] /\ c[2] <= w - 1
        /\ (c[1] # cell[1] \/ c[2] # cell[2])}

\* Minesweeper.nearby_mines
nearby_mines(cell) == Cardinality({c \in Neighbours(cell, height, width) : c \in board})

\* Minesweeper.is_mine
is_mine(cell) == cell \in board

\* ---- class Sentence ----

Sentence(cells, count) == [cells |-> cells, count |-> count]

\* known_mines with the test of known_safes
known_minesZero(s) == IF s.count = 0 THEN s.cells ELSE {}

\* Sentence.known_mines
known_mines(s) == IF s.count = Cardinality(s.cells) THEN s.cells ELSE {}

\* known_safes with the test of known_mines
known_safesFull(s) == IF s.count = Cardinality(s.cells) THEN s.cells ELSE {}

\* Sentence.known_safes
known_safes(s) == IF s.count = 0 THEN s.cells ELSE {}

\* mark_mine without the self.count -= 1
SentenceMarkMineKeepCount(s, cell) ==
    IF cell \in s.cells THEN Sentence(s.cells \ {cell}, s.count) ELSE s

\* mark_mine with the self.count -= 1 outside the test of the cell
SentenceMarkMineAlways(s, cell) == Sentence(s.cells \ {cell}, s.count - 1)

\* Sentence.mark_mine
SentenceMarkMine(s, cell) ==
    IF cell \in s.cells THEN Sentence(s.cells \ {cell}, s.count - 1) ELSE s

\* mark_safe that also decrements the count, as mark_mine does
SentenceMarkSafeDecrement(s, cell) ==
    IF cell \in s.cells THEN Sentence(s.cells \ {cell}, s.count - 1) ELSE s

\* Sentence.mark_safe
SentenceMarkSafe(s, cell) ==
    IF cell \in s.cells THEN Sentence(s.cells \ {cell}, s.count) ELSE s

\* ---- bags of sentences ----

RECURSIVE SumCopies(_, _)
\* the number of objects of bag B whose value is in S
SumCopies(B, S) ==
    IF S = {} THEN 0
    ELSE LET s == CHOOSE x \in S : TRUE
         IN  B[s] + SumCopies(B, S \ {s})

\* every sentence object of the list is updated by mark_mine(cell)
KnowledgeMarkMine(K, cell) ==
    LET img == {SentenceMarkMine(s, cell) : s \in DOMAIN K}
    IN  [n \in img |-> SumCopies(K, {s \in DOMAIN K : SentenceMarkMine(s, cell) = n})]

\* mark_safe without the loop over self.knowledge
KnowledgeMarkSafeSkip(K, cell) == K

\* every sentence object of the list is updated by mark_safe(cell)
KnowledgeMarkSafe(K, cell) ==
    LET img == {SentenceMarkSafe(s, cell) : s \in DOMAIN K}
    IN  [n \in img |-> SumCopies(K, {s \in DOMAIN K : SentenceMarkSafe(s, cell) = n})]

\* ---- MinesweeperAI.check ----

\* the cells check(s) adds to self.mines
CheckMines(s) == known_mines(s)

\* the cells check(s) adds to self.safes (the elif branch)
CheckSafes(s) == IF known_mines(s) # {} THEN {} ELSE known_safes(s)

\* ---- MinesweeperAI.add_knowledge ----

\* the new sentence without the count -= 1 for neighbours known to be mines
NewSentenceKeepCount(cell, count, m, sf, h, w) ==
    LET nb == Neighbours(cell, h, w)
    IN  Sentence({c \in nb : c \notin m /\ c \notin sf}, count)

\* the sentence built from the neighbours of cell (lines 217-227)
NewSentence(cell, count, m, sf, h, w) ==
    LET nb == Neighbours(cell, h, w)
    IN  Sentence({c \in nb : c \notin m /\ c \notin sf},
                 count - Cardinality({c \in nb : c \in m}))

\* the double loop's body without the new_count -= ... of either branch
ResolveKeepCount(s1, s2) ==
    IF s1.cells # s2.cells
    THEN IF s1.cells \subseteq s2.cells
         THEN {Sentence(s2.cells \ s1.cells, s2.count)}
         ELSE IF s2.cells \subseteq s1.cells
              THEN {Sentence(s1.cells \ s2.cells, s1.count)}
              ELSE {}
    ELSE {}

\* the body of the double loop for one ordered pair of sentences:
\* the set of sentences it adds to new_sentences (empty or one sentence)
Resolve(s1, s2) ==
    IF s1.cells # s2.cells
    THEN IF s1.cells \subseteq s2.cells
         THEN {Sentence(s2.cells \ s1.cells, s2.count - s1.count)}
         ELSE IF s2.cells \subseteq s1.cells
              THEN {Sentence(s1.cells \ s2.cells, s1.count - s2.count)}
              ELSE {}
    ELSE {}

\* Sentence.__hash__ is hash(repr(self)) and Sentence defines no __repr__,
\* so the hash is that of the default repr, which holds the object's
\* address: two Sentence objects of equal value are distinct members of
\* the Python set new_sentences.  SetAdd gives the number of objects the
\* set holds after n objects of one value were added to it.
SetAdd(n) == n

\* the new_sentences set after the double loop over the list K
Resolution(K) ==
    LET pairs == (DOMAIN K) \X (DOMAIN K)
        P == [p \in pairs |-> K[p[1]] * K[p[2]]]
        img == UNION {Resolve(p[1], p[2]) : p \in pairs}
    IN  [n \in img |-> SetAdd(SumCopies(P, {p \in pairs : n \in Resolve(p[1], p[2])}))]

\* the sentences check() is called on during the double loop
PassChecked(K) ==
    {s \in DOMAIN K : \E t \in DOMAIN K : Resolve(s, t) # {}}

\* add_knowledge without its self.mark_safe(cell)
AddKnowledgeNoMarkSafe(cell, count) ==
    LET ms == NewSentence(cell, count, mines, safes, height, width)
        K2 == knowledge (+) SetToBag({ms})
        ns == Resolution(K2)
        checked == {ms} \cup PassChecked(K2) \cup DOMAIN ns
    IN  /\ moves_made' = moves_made \cup {cell}
        /\ mines' = mines \cup UNION {CheckMines(s) : s \in checked}
        /\ safes' = safes \cup UNION {CheckSafes(s) : s \in checked}
        /\ knowledge' = K2 (+) ns
        /\ my_sentence' = ms
        /\ new_sentences' = ns
        /\ op' = "add_knowledge"
        /\ arg' = <<cell, count>>
        /\ ret' = None
        /\ calls' = calls + 1
        /\ UNCHANGED <<height, width, board, sentenceVars>>

\* MinesweeperAI.add_knowledge(cell, count)
AddKnowledge(cell, count) ==
    LET sf1 == safes \cup {cell}
        K1 == KnowledgeMarkSafe(knowledge, cell)
        ms == NewSentence(cell, count, mines, sf1, height, width)
        K2 == K1 (+) SetToBag({ms})
        ns == Resolution(K2)
        checked == {ms} \cup PassChecked(K2) \cup DOMAIN ns
    IN  /\ moves_made' = moves_made \cup {cell}
        /\ mines' = mines \cup UNION {CheckMines(s) : s \in checked}
        /\ safes' = sf1 \cup UNION {CheckSafes(s) : s \in checked}
        /\ knowledge' = K2 (+) ns
        /\ my_sentence' = ms
        /\ new_sentences' = ns
        /\ op' = "add_knowledge"
        /\ arg' = <<cell, count>>
        /\ ret' = None
        /\ calls' = calls + 1
        /\ UNCHANGED <<height, width, board, sentenceVars>>

\* the board reports the true count of a cell that is not a mine
Observe ==
    \E cell \in Cells(height, width) :
        /\ ~is_mine(cell)
        /\ calls < MaxCalls
        /\ AddKnowledge(cell, nearby_mines(cell))

\* add_knowledge called with any in-bounds cell and any count
AddAny ==
    \E cell \in Cells(height, width) : \E count \in 0 .. MaxCount :
        /\ calls < MaxAnyCalls
        /\ AddKnowledge(cell, count)

\* ---- MinesweeperAI.mark_mine / mark_safe ----

\* MinesweeperAI.mark_mine(cell)
AIMarkMine(cell) ==
    /\ mines' = mines \cup {cell}
    /\ knowledge' = KnowledgeMarkMine(knowledge, cell)
    /\ op' = "mark_mine"
    /\ arg' = <<cell>>
    /\ ret' = None
    /\ calls' = calls + 1
    /\ UNCHANGED <<height, width, board, moves_made, safes,
                   my_sentence, new_sentences, sentenceVars>>

\* mark_mine called with any in-bounds cell
MarkMine ==
    \E cell \in Cells(height, width) :
        /\ calls < MaxAnyCalls
        /\ AIMarkMine(cell)

\* mark_safe that takes the cell out of self.mines
MarkSafeFlip ==
    \E cell \in Cells(height, width) :
        /\ calls < MaxAnyCalls
        /\ safes' = safes \cup {cell}
        /\ mines' = mines \ {cell}
        /\ knowledge' = KnowledgeMarkSafe(knowledge, cell)
        /\ op' = "mark_safe"
        /\ arg' = <<cell>>
        /\ ret' = None
        /\ calls' = calls + 1
        /\ UNCHANGED <<height, width, board, moves_made,
                       my_sentence, new_sentences, sentenceVars>>

\* MinesweeperAI.mark_safe(cell)
AIMarkSafe(cell) ==
    /\ safes' = safes \cup {cell}
    /\ knowledge' = KnowledgeMarkSafe(knowledge, cell)
    /\ op' = "mark_safe"
    /\ arg' = <<cell>>
    /\ ret' = None
    /\ calls' = calls + 1
    /\ UNCHANGED <<height, width, board, moves_made, mines,
                   my_sentence, new_sentences, sentenceVars>>

\* mark_safe called with any in-bounds cell
MarkSafe ==
    \E cell \in Cells(height, width) :
        /\ calls < MaxAnyCalls
        /\ AIMarkSafe(cell)

\* ---- the move queries ----

\* make_safe_move without the moves_made test
SafeCandidatesAll == safes

\* the cells make_safe_move may return: the loop returns the first cell of
\* self.safes, in the set's iteration order, that is not in moves_made
SafeCandidates == {c \in safes : c \notin moves_made}

\* make_safe_move that records the cell it returns as a move made
MakeSafeMoveRecord ==
    /\ \/ /\ SafeCandidates # {}
          /\ ret' \in SafeCandidates
          /\ moves_made' = moves_made \cup {ret'}
       \/ /\ SafeCandidates = {}
          /\ ret' = None
          /\ moves_made' = moves_made
    /\ op' = "make_safe_move"
    /\ arg' = <<>>
    /\ UNCHANGED <<height, width, board, mines, safes, knowledge,
                   my_sentence, new_sentences, calls, sentenceVars>>

\* MinesweeperAI.make_safe_move()
MakeSafeMove ==
    /\ \/ /\ SafeCandidates # {}
          /\ ret' \in SafeCandidates
       \/ /\ SafeCandidates = {}
          /\ ret' = None
    /\ op' = "make_safe_move"
    /\ arg' = <<>>
    /\ UNCHANGED <<height, width, board, moves_made, mines, safes, knowledge,
                   my_sentence, new_sentences, calls, sentenceVars>>

\* make_random_move without the self.mines test
RandomCandidatesUnprobed == {c \in Cells(height, width) : c \notin moves_made}

\* make_random_move without the self.moves_made test
RandomCandidatesNotMines == {c \in Cells(height, width) : c \notin mines}

\* the cells that pass both tests of make_random_move
RandomCandidates ==
    {c \in Cells(height, width) : c \notin moves_made /\ c \notin mines}

\* row-major scan order of the two nested range() loops
Before(c, d) == c[1] < d[1] \/ (c[1] = d[1] /\ c[2] <= d[2])

\* MinesweeperAI.make_random_move()
MakeRandomMove ==
    /\ \/ /\ RandomCandidates # {}
          /\ ret' = CHOOSE c \in RandomCandidates :
                        \A d \in RandomCandidates : Before(c, d)
       \/ /\ RandomCandidates = {}
          /\ ret' = None
    /\ op' = "make_random_move"
    /\ arg' = <<>>
    /\ UNCHANGED <<height, width, board, moves_made, mines, safes, knowledge,
                   my_sentence, new_sentences, calls, sentenceVars>>

\* ---- specifications ----

\* MinesweeperAI.__init__, with no board attached
InitAI ==
    /\ height \in 1 .. MaxCells
    /\ width \in 1 .. MaxCells
    /\ height * width <= MaxCells
    /\ moves_made = {}
    /\ mines = {}
    /\ safes = {}
    /\ knowledge = EmptyBag
    /\ op = "init"
    /\ arg = <<>>
    /\ my_sentence = Sentence({}, 0)
    /\ new_sentences = EmptyBag
    /\ ret = None
    /\ calls = 0
    /\ sentence = Sentence({}, 0)
    /\ sentence_was = Sentence({}, 0)

\* a game: Minesweeper.__init__ places the mines, the AI starts empty
Init ==
    /\ InitAI
    /\ board \in SUBSET Cells(height, width)

\* the AI is told the true counts of non-mine cells, and is asked for moves
Next == Observe \/ MakeSafeMove \/ MakeRandomMove

Spec == Init /\ [][Next]_vars

\* any use of the public methods of MinesweeperAI
InitAny ==
    /\ InitAI
    /\ board = {}

NextAny == AddAny \/ MarkMine \/ MarkSafe \/ MakeSafeMove \/ MakeRandomMove

SpecAny == InitAny /\ [][NextAny]_vars

\* the caller repeats its last mark_mine or mark_safe call at once, with
\* the same cell
RepeatMark ==
    /\ op \in {"mark_mine", "mark_safe"}
    /\ calls <= MaxAnyCalls
    /\ IF op = "mark_mine" THEN AIMarkMine(arg[1]) ELSE AIMarkSafe(arg[1])

NextMarks == AddAny \/ MarkMine \/ MarkSafe \/ RepeatMark

\* any use of add_knowledge, mark_mine and mark_safe, marks being repeated
SpecMarks == InitAny /\ [][NextMarks]_vars

\* ---- the game loop ----

\* move := make_safe_move(), or make_random_move() when that is None
GameMove ==
    /\ op \in {"init", "add_knowledge"}
    /\ \/ /\ SafeCandidates # {}
          /\ ret' \in SafeCandidates
       \/ /\ SafeCandidates = {}
          /\ RandomCandidates # {}
          /\ ret' = CHOOSE c \in RandomCandidates :
                        \A d \in RandomCandidates : Before(c, d)
       \/ /\ SafeCandidates = {}
          /\ RandomCandidates = {}
          /\ ret' = None
    /\ op' = "game_move"
    /\ arg' = <<>>
    /\ UNCHANGED <<height, width, board, moves_made, mines, safes, knowledge,
                   my_sentence, new_sentences, calls, sentenceVars>>

\* the move is a cell without a mine: add_knowledge(move, its true count)
GameProbe ==
    /\ op = "game_move"
    /\ ret # None
    /\ ~is_mine(ret)
    /\ AddKnowledge(ret, nearby_mines(ret))

\* no move is available or the move is a mine: the loop stops
GameStop ==
    /\ op = "game_move"
    /\ ret = None \/ is_mine(ret)
    /\ op' = "game_over"
    /\ UNCHANGED <<height, width, board, moves_made, mines, safes, knowledge,
                   arg, my_sentence, new_sentences, ret, calls, sentenceVars>>

NextGame == GameMove \/ GameProbe \/ GameStop

\* the loop is the only caller and runs on: its next step is always taken
SpecGame == Init /\ [][NextGame]_vars /\ WF_vars(NextGame)

\* ---- a Sentence on its own ----

\* Sentence(cells, count) for any cells of the board and any count from
\* one below 0 to one above the number of cells
InitSentence ==
    /\ height \in 1 .. MaxCells
    /\ width \in 1 .. MaxCells
    /\ height * width <= MaxCells
    /\ board = {}
    /\ moves_made = {}
    /\ mines = {}
    /\ safes = {}
    /\ knowledge = EmptyBag
    /\ op = "init"
    /\ arg = <<>>
    /\ my_sentence = Sentence({}, 0)
    /\ new_sentences = EmptyBag
    /\ ret = None
    /\ calls = 0
    /\ \E cs \in SUBSET Cells(height, width) :
          \E n \in -1 .. Cardinality(cs) + 1 : sentence = Sentence(cs, n)
    /\ sentence_was = sentence

\* sentence.mark_mine(cell)
SentMarkMine ==
    \E cell \in Cells(height, width) :
        /\ sentence' = SentenceMarkMine(sentence, cell)
        /\ sentence_was' = sentence
        /\ op' = "Sentence.mark_mine"
        /\ arg' = <<cell>>
        /\ ret' = None
        /\ UNCHANGED <<height, width, board, moves_made, mines, safes,
                       knowledge, my_sentence, new_sentences, calls>>

\* sentence.mark_safe(cell)
SentMarkSafe ==
    \E cell \in Cells(height, width) :
        /\ sentence' = SentenceMarkSafe(sentence, cell)
        /\ sentence_was' = sentence
        /\ op' = "Sentence.mark_safe"
        /\ arg' = <<cell>>
        /\ ret' = None
        /\ UNCHANGED <<height, width, board, moves_made, mines, safes,
                       knowledge, my_sentence, new_sentences, calls>>

\* sentence.known_mines() and sentence.known_safes(), both results kept;
\* both methods build their result from set(self.cells) and assign nothing
SentKnown ==
    /\ ret' = [mines |-> known_mines(sentence), safes |-> known_safes(sentence)]
    /\ sentence' = sentence
    /\ sentence_was' = sentence
    /\ op' = "Sentence.known"
    /\ arg' = <<>>
    /\ UNCHANGED <<height, width, board, moves_made, mines, safes,
                   knowledge, my_sentence, new_sentences, calls>>

NextSentence == SentMarkMine \/ SentMarkSafe \/ SentKnown

SpecSentence == InitSentence /\ [][NextSentence]_vars

\* ---- properties ----

\* the knowledge list while the double loop of the last add_knowledge ran:
\* the inferred sentences are appended only after it
PassKnowledge == knowledge (-) new_sentences

Card(S) == Cardinality(S)

\* C1: with true counts of non-mine cells of one board, no cell of safes is
\* a mine of the board, every cell of mines is one, and make_safe_move
\* never returns a mine.
Soundness ==
    /\ safes \cap board = {}
    /\ mines \subseteq board
    /\ (op = "make_safe_move" /\ ret # None) => ret \notin board

\* a safe move was returned on a board with mines, after the AI found a
\* mine next to which it had to reason
SoundnessWitness ==
    /\ op = "make_safe_move" /\ ret # None
    /\ mines # {}
    /\ calls >= 2
    /\ \E c \in Neighbours(ret, height, width) : c \in mines

\* C2: with true counts of non-mine cells of one board, no cell is recorded
\* both as safe and as mine.
SafesMinesDisjoint == safes \cap mines = {}

SafesMinesDisjointWitness ==
    /\ op = "add_knowledge" /\ calls >= 2
    /\ mines # {}
    /\ safes \ moves_made # {}
    /\ new_sentences # EmptyBag

\* C3: after add_knowledge returns, every cell of every stored sentence is
\* in neither safes nor mines.
StoredCellsUnknown ==
    \A s \in DOMAIN knowledge : s.cells \cap (safes \cup mines) = {}

\* C4: whatever public method is called, mines, safes and moves_made never
\* lose an element.
Monotonic ==
    [][/\ mines \subseteq mines'
       /\ safes \subseteq safes'
       /\ moves_made \subseteq moves_made']_vars

\* a cell was marked by hand after the three sets were filled
MonotonicWitness ==
    /\ op \in {"mark_safe", "mark_mine"}
    /\ calls >= 2
    /\ mines # {} /\ safes # {} /\ moves_made # {}
    /\ arg[1] \in mines \cap safes

\* C5: for sentences A, B of the knowledge during the resolution pass with
\* A.cells a proper subset of B.cells, the returned knowledge holds the
\* sentence B.cells - A.cells = B.count - A.count; if its count is the
\* number of its cells they are in mines, if its count is 0 they are in safes.
ResolutionDerives ==
    op = "add_knowledge" =>
        \A A \in DOMAIN PassKnowledge : \A B \in DOMAIN PassKnowledge :
            (A.cells \subseteq B.cells /\ A.cells # B.cells) =>
                LET N == [cells |-> B.cells \ A.cells, count |-> B.count - A.count]
                IN  /\ BagIn(N, knowledge)
                    /\ N.count = Card(N.cells) => N.cells \subseteq mines
                    /\ N.count = 0 => N.cells \subseteq safes

\* a sentence with cells was subtracted from a larger one and the
\* difference is all mines
ResolutionDerivesWitness ==
    /\ op = "add_knowledge"
    /\ \E A \in DOMAIN PassKnowledge : \E B \in DOMAIN PassKnowledge :
          /\ A.cells # {} /\ A.cells \subseteq B.cells /\ A.cells # B.cells
          /\ A.count > 0
          /\ B.count - A.count = Card(B.cells \ A.cells)
          /\ (B.cells \ A.cells) \subseteq mines
          /\ BagIn([cells |-> B.cells \ A.cells, count |-> B.count - A.count], knowledge)

\* C6: add_knowledge(cell, count), with U the in-bounds neighbours of cell
\* in neither mines nor safes and k = count minus the neighbours in mines:
\* after the call, k = 0 puts U in safes and k = |U| > 0 puts U in mines.
DirectResolution ==
    [][(op' = "add_knowledge" /\ calls' = calls + 1) =>
          LET cell == arg'[1]
              nb == {c \in Cells(height, width) :
                        /\ c # cell
                        /\ c[1] - cell[1] \in -1 .. 1
                        /\ c[2] - cell[2] \in -1 .. 1}
              U == nb \ (mines \cup safes)
              k == arg'[2] - Card(nb \cap mines)
          IN  /\ k = 0 => U \subseteq safes'
              /\ (k = Card(U) /\ Card(U) > 0) => U \subseteq mines']_vars

\* a call whose count, less the known mine neighbours, equals the number of
\* unknown neighbours: they are all mines now
DirectResolutionWitness ==
    /\ op = "add_knowledge" /\ calls >= 2
    /\ my_sentence.cells # {}
    /\ my_sentence.count = Card(my_sentence.cells)
    /\ my_sentence.count < arg[2]
    /\ my_sentence.cells \subseteq mines

\* C7: make_safe_move returns a cell of safes that is not in moves_made
\* when there is one, and None exactly when safes is a subset of moves_made.
SafeMoveCorrect ==
    op = "make_safe_move" =>
        /\ ret # None => (ret \in safes /\ ret \notin moves_made)
        /\ ret = None <=> safes \subseteq moves_made

\* the 1 x 2 example: (0,0) probed with count 1, nothing safe is left
SafeMoveCorrectWitness ==
    /\ op = "make_safe_move" /\ ret = None
    /\ height = 1 /\ width = 2
    /\ moves_made = {<<0, 0>>}
    /\ mines = {<<0, 1>>}

\* C8: make_random_move returns an in-bounds cell in neither moves_made nor
\* mines when there is one, and None exactly when every cell of the board
\* is in moves_made or mines.
RandomMoveCorrect ==
    op = "make_random_move" =>
        /\ ret # None => /\ ret \in Cells(height, width)
                         /\ ret \notin moves_made
                         /\ ret \notin mines
        /\ ret = None <=> Cells(height, width) \subseteq (moves_made \cup mines)

\* a cell was returned although a known mine comes before it in the scan
RandomMoveCorrectWitness ==
    /\ op = "make_random_move" /\ ret # None
    /\ moves_made # {}
    /\ \E c \in mines : Before(c, ret)

\* C9: no two sentences appended by one add_knowledge call have equal cells
\* and equal counts.
InferredDeduplicated ==
    \A n \in DOMAIN new_sentences : new_sentences[n] = 1

\* C10: add_knowledge called again with the same cell and the same count
\* leaves moves_made, safes, mines and the stored sentences as they were.
DuplicateIdempotent ==
    [][(/\ op = "add_knowledge" /\ op' = "add_knowledge"
        /\ calls' = calls + 1
        /\ arg' = arg) => UNCHANGED aiState]_vars

\* C11: with true counts of non-mine cells of one board, every stored
\* sentence has 0 <= count <= |cells|, and its count is the number of mines
\* of the board among its cells.
CountWellFormed ==
    \A s \in DOMAIN knowledge :
        /\ 0 <= s.count
        /\ s.count <= Card(s.cells)
        /\ s.count = Card(s.cells \cap board)

\* an inferred sentence and a sentence that lost a probed cell are stored,
\* one of them with some but not all of its cells mines
CountWellFormedWitness ==
    /\ op = "add_knowledge" /\ calls >= 2
    /\ new_sentences # EmptyBag
    /\ \E s \in DOMAIN knowledge :
          /\ 0 < s.count /\ s.count < Card(s.cells)
          /\ \E c \in moves_made : c \in Neighbours(arg[1], height, width)
    /\ \E n \in DOMAIN new_sentences : n.cells # {} /\ n.count > 0

\* C12: make_safe_move and make_random_move change none of moves_made,
\* safes, mines and the stored sentences.
QueriesPure ==
    [][op' \in {"make_safe_move", "make_random_move"} =>
          UNCHANGED <<moves_made, safes, mines, knowledge>>]_vars

\* a query returned a cell while sentences, safes and mines were recorded
QueriesPureWitness ==
    /\ op \in {"make_safe_move", "make_random_move"}
    /\ ret # None /\ ret \notin moves_made
    /\ knowledge # EmptyBag /\ mines # {} /\ safes # {}

\* C13: Sentence.mark_mine(cell) removes the cell and decrements count by 1
\* when the cell is in cells and changes nothing otherwise;
\* Sentence.mark_safe(cell) removes the cell and keeps count when the cell
\* is in cells and changes nothing otherwise; a second mark_mine or
\* mark_safe of the same cell changes nothing.
SentenceMarks ==
    [][/\ op' = "Sentence.mark_mine" =>
             IF arg'[1] \in sentence.cells
             THEN /\ sentence'.cells = sentence.cells \ {arg'[1]}
                  /\ sentence'.count = sentence.count - 1
             ELSE sentence' = sentence
       /\ op' = "Sentence.mark_safe" =>
             IF arg'[1] \in sentence.cells
             THEN /\ sentence'.cells = sentence.cells \ {arg'[1]}
                  /\ sentence'.count = sentence.count
             ELSE sentence' = sentence
       /\ (/\ op \in {"Sentence.mark_mine", "Sentence.mark_safe"}
           /\ op' \in {"Sentence.mark_mine", "Sentence.mark_safe"}
           /\ arg' = arg) => sentence' = sentence]_vars

\* mark_mine took a cell out of a sentence that keeps other cells
SentenceMarksWitness ==
    /\ op = "Sentence.mark_mine"
    /\ arg[1] \in sentence_was.cells
    /\ sentence.cells = sentence_was.cells \ {arg[1]}
    /\ sentence.cells # {}
    /\ sentence.count = sentence_was.count - 1

\* C14: after MinesweeperAI.mark_mine(cell) (mark_safe(cell)) the cell is in
\* mines (safes) and in no stored sentence, and the same call made again at
\* once changes none of mines, safes, moves_made and the stored sentences.
MarkIdempotent ==
    [][/\ (op' = "mark_mine" /\ calls' = calls + 1) =>
             /\ arg'[1] \in mines'
             /\ \A s \in DOMAIN knowledge' : arg'[1] \notin s.cells
       /\ (op' = "mark_safe" /\ calls' = calls + 1) =>
             /\ arg'[1] \in safes'
             /\ \A s \in DOMAIN knowledge' : arg'[1] \notin s.cells
       /\ (/\ op \in {"mark_mine", "mark_safe"}
           /\ op' = op /\ arg' = arg
           /\ calls' = calls + 1) => UNCHANGED aiState]_vars

\* mark_mine was repeated for a cell that the sentence of an earlier
\* add_knowledge held
MarkIdempotentWitness ==
    /\ op = "mark_mine" /\ calls >= 3
    /\ arg[1] \in my_sentence.cells
    /\ arg[1] \in mines
    /\ knowledge # EmptyBag
    /\ \A s \in DOMAIN knowledge : arg[1] \notin s.cells

\* C15: after any sequence of add_knowledge calls every cell of moves_made
\* is in safes.
ProbedAreSafe == moves_made \subseteq safes

\* two cells were probed with counts that prove nothing about them
ProbedAreSafeWitness ==
    /\ op = "add_knowledge"
    /\ Card(moves_made) >= 2
    /\ arg[2] > 0
    /\ safes = moves_made

\* C16: a mark_mine of a cell held by a stored sentence whose count is 0 is
\* reported as an error (its result is not the plain None), and it leaves
\* no sentence with a newly negative count.
NegativeCountReported ==
    [][(/\ op' = "mark_mine" /\ calls' = calls + 1
        /\ \E s \in DOMAIN knowledge : arg'[1] \in s.cells /\ s.count = 0) =>
          /\ ret' # None
          /\ \A s \in DOMAIN knowledge' :
                s.count < 0 => BagIn(s, knowledge)]_vars

\* C17: known_mines() is cells when count = |cells| and empty otherwise,
\* known_safes() is cells when count = 0 and empty otherwise; they are never
\* both non-empty, both are empty when cells is empty, and neither call
\* changes the sentence.
KnownExclusive ==
    /\ [](op = "Sentence.known" =>
            /\ ret.mines = (IF sentence.count = Card(sentence.cells)
                            THEN sentence.cells ELSE {})
            /\ ret.safes = (IF sentence.count = 0 THEN sentence.cells ELSE {})
            /\ ~(ret.mines # {} /\ ret.safes # {})
            /\ sentence.cells = {} => (ret.mines = {} /\ ret.safes = {}))
    /\ [][op' = "Sentence.known" => sentence' = sentence]_vars

\* a sentence with as many cells as its count: known_mines() gives its
\* cells and known_safes() nothing
KnownExclusiveWitness ==
    /\ op = "Sentence.known"
    /\ sentence.cells # {}
    /\ ret.mines = sentence.cells
    /\ ret.safes = {}
    /\ sentence = sentence_was

\* C18: with true counts of non-mine cells of one board, when add_knowledge
\* has returned every stored sentence with count = |cells| > 0 has its cells
\* in mines and every stored sentence with count = 0 has its cells in safes.
DirectFactsExtracted ==
    \A s \in DOMAIN knowledge :
        /\ (s.count = Card(s.cells) /\ s.cells # {}) => s.cells \subseteq mines
        /\ s.count = 0 => s.cells \subseteq safes

\* C20: no stored sentence holds a cell of moves_made.
NoProbedCellStored ==
    \A s \in DOMAIN knowledge : s.cells \cap moves_made = {}

\* the cell probed last was in the sentence of a cell probed before it, and
\* sentences with cells are stored
NoProbedCellStoredWitness ==
    /\ op = "add_knowledge" /\ calls >= 2
    /\ \E c \in moves_made \ {arg[1]} : arg[1] \in Neighbours(c, height, width)
    /\ arg[1] \notin safes \cap mines
    /\ \E s \in DOMAIN knowledge : Card(s.cells) >= 2
    /\ new_sentences # EmptyBag

\* C19: in the game loop every move returned is a cell not in moves_made,
\* moves_made grows by exactly one cell per add_knowledge, the number of
\* probes never exceeds height * width, and the loop stops.
GameTerminates ==
    /\ []((op = "game_move" /\ ret # None) => ret \notin moves_made)
    /\ [][op' = "add_knowledge" =>
             /\ moves_made' = moves_made \cup {ret}
             /\ Card(moves_made') = Card(moves_made) + 1]_vars
    /\ [](calls = Card(moves_made) /\ calls <= height * width)
    /\ <>(op = "game_over")

\* the loop stopped with no move left, after three probes, with the mines
\* that remain all known
GameTerminatesWitness ==
    /\ op = "game_over" /\ ret = None
    /\ calls >= 3
    /\ mines # {}
    /\ moves_made \cup mines = Cells(height, width)

====
